---------------------------- MODULE Spec2Model ----------------------------
(***************************************************************************)
(* Model of the shell word splitter of go-shellquote (src/unquote.go).     *)
(*                                                                         *)
(* A Go string is a sequence of bytes (integers 0..255); a rune is an      *)
(* integer code point.  Slices input[a:b] are 0-based, half open.          *)
(* SplitWithOptions is modelled twice from the same block operators: as a  *)
(* step machine (one action per labelled block of the source) and as the   *)
(* recursive operator SplitWithOptions, used to compare two calls.         *)
(***************************************************************************)
EXTENDS Integers, Sequences, FiniteSets, TLC

(***************************************************************************)
(* Bounds of the model.                                                    *)
(***************************************************************************)
MaxLen == 4
MaxRun == 2
MaxWordsLen == 7

(***************************************************************************)
(* Go runtime: slices, unicode/utf8, strings.                              *)
(***************************************************************************)
Slice(s, a, b) == SubSeq(s, a + 1, b)

SliceFrom(s, a) == SubSeq(s, a + 1, Len(s))

RuneError == 65533

RuneSelf == 128

UTFMax == 4

IsCont(b) == b \in 128..191

\* utf8.DecodeRuneInString: the first rune of s and its width in bytes
DecodeRuneInString(s) ==
  IF Len(s) = 0 THEN [r |-> RuneError, l |-> 0]
  ELSE LET b0 == s[1] IN
    IF b0 < RuneSelf THEN [r |-> b0, l |-> 1]
    ELSE IF b0 \in 194..223 THEN
      IF Len(s) >= 2 /\ IsCont(s[2])
      THEN [r |-> (b0 - 192) * 64 + (s[2] - 128), l |-> 2]
      ELSE [r |-> RuneError, l |-> 1]
    ELSE IF b0 \in 224..239 THEN
      IF /\ Len(s) >= 3
         /\ s[2] \in (IF b0 = 224 THEN 160..191 ELSE IF b0 = 237 THEN 128..159 ELSE 128..191)
         /\ IsCont(s[3])
      THEN [r |-> (b0 - 224) * 4096 + (s[2] - 128) * 64 + (s[3] - 128), l |-> 3]
      ELSE [r |-> RuneError, l |-> 1]
    ELSE IF b0 \in 240..244 THEN
      IF /\ Len(s) >= 4
         /\ s[2] \in (IF b0 = 240 THEN 144..191 ELSE IF b0 = 244 THEN 128..143 ELSE 128..191)
         /\ IsCont(s[3])
         /\ IsCont(s[4])
      THEN [r |-> (b0 - 240) * 262144 + (s[2] - 128) * 4096 + (s[3] - 128) * 64 + (s[4] - 128),
            l |-> 4]
      ELSE [r |-> RuneError, l |-> 1]
    ELSE [r |-> RuneError, l |-> 1]

\* utf8.DecodeLastRuneInString: the last rune of s and its width in bytes
DecodeLastRuneInString(s) ==
  LET end == Len(s) IN
  IF end = 0 THEN [r |-> RuneError, l |-> 0]
  ELSE IF s[end] < RuneSelf THEN [r |-> s[end], l |-> 1]
  ELSE LET lim == IF end - UTFMax < 0 THEN 0 ELSE end - UTFMax
           \* 0-based indexes start in lim..end-2 whose byte starts a rune
           cands == {i \in lim..(end - 2) : ~IsCont(s[i + 1])}
           found == IF cands = {} THEN lim - 1
                    ELSE CHOOSE i \in cands : \A j \in cands : j <= i
           start == IF found < 0 THEN 0 ELSE found
           d == DecodeRuneInString(Slice(s, start, end))
       IN IF start + d.l # end THEN [r |-> RuneError, l |-> 1] ELSE d

\* utf8.EncodeRune / string(rune): the UTF-8 bytes of rune r
EncodeRune(r) ==
  IF r >= 0 /\ r < 128 THEN <<r>>
  ELSE IF r >= 128 /\ r < 2048 THEN <<192 + (r \div 64), 128 + (r % 64)>>
  ELSE IF r < 0 \/ r > 1114111 \/ r \in 55296..57343 THEN <<239, 191, 189>>
  ELSE IF r < 65536
    THEN <<224 + (r \div 4096), 128 + ((r \div 64) % 64), 128 + (r % 64)>>
  ELSE <<240 + (r \div 262144), 128 + ((r \div 4096) % 64),
         128 + ((r \div 64) % 64), 128 + (r % 64)>>

\* strings.Index: 0-based byte index of the first occurrence of sub in s, or -1
Index(s, sub) ==
  LET hits == {i \in 0..(Len(s) - Len(sub)) : Slice(s, i, i + Len(sub)) = sub}
  IN IF hits = {} THEN -1 ELSE CHOOSE i \in hits : \A j \in hits : i <= j

\* the `for i, r := range s` scan of strings.IndexRune for r = utf8.RuneError
RECURSIVE IndexRuneErrorFrom(_, _)
IndexRuneErrorFrom(s, off) ==
  IF off >= Len(s) THEN -1
  ELSE LET d == DecodeRuneInString(SliceFrom(s, off)) IN
       IF d.r = RuneError THEN off ELSE IndexRuneErrorFrom(s, off + d.l)

\* strings.IndexRune: 0-based byte index of the first occurrence of rune r
IndexRune(s, r) ==
  IF r >= 0 /\ r < RuneSelf THEN Index(s, <<r>>)
  ELSE IF r = RuneError THEN IndexRuneErrorFrom(s, 0)
  ELSE IF r < 0 \/ r > 1114111 \/ r \in 55296..57343 THEN -1
  ELSE Index(s, EncodeRune(r))

\* strings.ContainsRune
ContainsRune(s, r) == IndexRune(s, r) >= 0

\* strings.TrimLeft: drop leading runes that are in cutset
RECURSIVE TrimLeft(_, _)
TrimLeft(s, cutset) ==
  IF Len(s) = 0 \/ Len(cutset) = 0 THEN s
  ELSE LET d == DecodeRuneInString(s) IN
       IF ContainsRune(cutset, d.r)
       THEN CHOOSE t \in {TrimLeft(rest, cutset) : rest \in {SliceFrom(s, d.l)}} : TRUE
       ELSE s

\* strings.TrimRight: drop trailing runes that are in cutset
RECURSIVE TrimRight(_, _)
TrimRight(s, cutset) ==
  IF Len(s) = 0 \/ Len(cutset) = 0 THEN s
  ELSE LET d == DecodeLastRuneInString(s) IN
       IF ContainsRune(cutset, d.r)
       THEN CHOOSE t \in {TrimRight(rest, cutset) : rest \in {Slice(s, 0, Len(s) - d.l)}} : TRUE
       ELSE s

\* mutant of IsSpace: only the ASCII white space
isSpaceASCII(r) == r \in {9, 10, 11, 12, 13, 32}

\* unicode.IsSpace: the Unicode White_Space code points
IsSpace(r) ==
  r \in {9, 10, 11, 12, 13, 32, 133, 160, 5760, 8232, 8233, 8239, 8287, 12288}
        \cup (8192..8202)

RECURSIVE TrimLeftSpace(_)
TrimLeftSpace(s) ==
  IF Len(s) = 0 THEN s
  ELSE LET d == DecodeRuneInString(s) IN
       IF IsSpace(d.r)
       THEN CHOOSE t \in {TrimLeftSpace(rest) : rest \in {SliceFrom(s, d.l)}} : TRUE
       ELSE s

RECURSIVE TrimRightSpace(_)
TrimRightSpace(s) ==
  IF Len(s) = 0 THEN s
  ELSE LET d == DecodeLastRuneInString(s) IN
       IF IsSpace(d.r)
       THEN CHOOSE t \in {TrimRightSpace(rest) : rest \in {Slice(s, 0, Len(s) - d.l)}} : TRUE
       ELSE s

\* strings.TrimSpace: leading and trailing white space removed, as defined by Unicode
TrimSpace(s) ==
  \* by value: TrimLeftSpace's result is computed once and handed to TrimRightSpace
  CHOOSE t \in {TrimRightSpace(l) : l \in {TrimLeftSpace(s)}} : TRUE


(***************************************************************************)
(* Errors, defaults and options (src/unquote.go:10-48).                    *)
(***************************************************************************)
nil == "nil"

UnterminatedSingleQuoteError == "Unterminated single-quoted string"

UnterminatedDoubleQuoteError == "Unterminated double-quoted string"

UnterminatedEscapeError == "Unterminated backslash-escape"

NL == 10

DefaultSplitChars == <<32, 10, 9>>

DefaultSingleChar == 39

DefaultDoubleChar == 34

DefaultEscapeChar == 92

DefaultDoubleEscapeChars == <<36, 96, 34, 10, 92>>

\* a *SplitOptions argument: isNil marks the nil pointer, whose fields are never read
DefaultSplitOptions ==
  [isNil |-> FALSE,
   SplitChars |-> DefaultSplitChars,
   SingleChar |-> DefaultSingleChar,
   DoubleChar |-> DefaultDoubleChar,
   EscapeChar |-> DefaultEscapeChar,
   DoubleEscapeChars |-> DefaultDoubleEscapeChars,
   Limit |-> -1]

NoEscapeSplitOptions == [DefaultSplitOptions EXCEPT !.EscapeChar = 0]

NilOptions ==
  [isNil |-> TRUE, SplitChars |-> <<>>, SingleChar |-> 0, DoubleChar |-> 0,
   EscapeChar |-> 0, DoubleEscapeChars |-> <<>>, Limit |-> 0]

(***************************************************************************)
(* splitWord (src/unquote.go:133-222): one operator per labelled block.    *)
(* A block yields the label control goes to next ("return" when the        *)
(* function returns), splitWord's variable input, the buffer, and the      *)
(* returned triple.  On a return, buf is what the shared buffer is left    *)
(* holding.                                                                *)
(***************************************************************************)
NoRet == [word |-> <<>>, remainder |-> <<>>, err |-> nil]

Goto(label, input, buf) == [pc |-> label, input |-> input, buf |-> buf, ret |-> NoRet]

Return(buf, word, remainder, e) ==
  [pc |-> "return", input |-> <<>>, buf |-> buf,
   ret |-> [word |-> word, remainder |-> remainder, err |-> e]]

\* the for loop of raw: cur is the part of input not yet scanned
RECURSIVE rawScan(_, _, _, _)
rawScan(input, cur, buf, opts) ==
  IF Len(cur) = 0
  THEN Goto("done", <<>>, buf \o input)
  ELSE LET d == DecodeRuneInString(cur)
           c == d.r
           rest == SliceFrom(cur, d.l)
           prefix == Slice(input, 0, Len(input) - Len(rest) - d.l)
       IN IF c = opts.SingleChar THEN Goto("single", rest, buf \o prefix)
          ELSE IF c = opts.DoubleChar THEN Goto("double", rest, buf \o prefix)
          ELSE IF c = opts.EscapeChar THEN Goto("escape", rest, buf \o prefix)
          ELSE IF ContainsRune(opts.SplitChars, c) THEN Return(buf \o prefix, buf \o prefix, rest, nil)
          ELSE CHOOSE f \in {rawScan(input, r, buf, opts) : r \in {rest}} : TRUE

raw(input, buf, opts) == rawScan(input, input, buf, opts)

\* mutant of escape: an escaped newline is written like any other code point
escapeKeepsNewline(input, buf, opts) ==
  IF Len(input) = 0 THEN Return(buf, <<>>, <<>>, UnterminatedEscapeError)
  ELSE LET d == DecodeRuneInString(input) IN
       Goto("raw", SliceFrom(input, d.l), buf \o Slice(input, 0, d.l))

\* mutant of escape: the code point after the backslash is left to raw
escapeRereads(input, buf, opts) ==
  IF Len(input) = 0 THEN Return(buf, <<>>, <<>>, UnterminatedEscapeError)
  ELSE Goto("raw", input, buf)

\* mutant of escape: the escaped code point is consumed but not written
escapeDropsChar(input, buf, opts) ==
  IF Len(input) = 0 THEN Return(buf, <<>>, <<>>, UnterminatedEscapeError)
  ELSE Goto("raw", SliceFrom(input, DecodeRuneInString(input).l), buf)

escape(input, buf, opts) ==
  IF Len(input) = 0 THEN Return(buf, <<>>, <<>>, UnterminatedEscapeError)
  ELSE LET d == DecodeRuneInString(input) IN
       IF d.r = NL
       THEN Goto("raw", SliceFrom(input, d.l), buf)
       ELSE Goto("raw", SliceFrom(input, d.l), buf \o Slice(input, 0, d.l))

\* mutant of single: the end of the input closes the span
singleLenient(input, buf, opts) ==
  LET i == IndexRune(input, opts.SingleChar) IN
  IF i = -1 THEN Return(buf \o input, buf \o input, <<>>, nil)
  ELSE Goto("raw", SliceFrom(input, i + 1), buf \o Slice(input, 0, i))

\* mutant of single: the closing quote is left in the input (input[i:])
singleKeepsQuote(input, buf, opts) ==
  LET i == IndexRune(input, opts.SingleChar) IN
  IF i = -1 THEN Return(buf, <<>>, <<>>, UnterminatedSingleQuoteError)
  ELSE Goto("raw", SliceFrom(input, i), buf \o Slice(input, 0, i))

single(input, buf, opts) ==
  LET i == IndexRune(input, opts.SingleChar) IN
  IF i = -1 THEN Return(buf, <<>>, <<>>, UnterminatedSingleQuoteError)
  ELSE Goto("raw", SliceFrom(input, i + 1), buf \o Slice(input, 0, i))

\* the for loop of double
RECURSIVE doubleScan(_, _, _, _)
doubleScan(input, cur, buf, opts) ==
  IF Len(cur) = 0
  THEN Return(buf, <<>>, <<>>, UnterminatedDoubleQuoteError)
  ELSE LET d == DecodeRuneInString(cur)
           c == d.r
           rest == SliceFrom(cur, d.l)
       IN IF c = opts.DoubleChar
          THEN Goto("raw", rest, buf \o Slice(input, 0, Len(input) - Len(rest) - d.l))
          ELSE IF c = opts.EscapeChar
          THEN LET d2 == DecodeRuneInString(rest)
                   c2 == d2.r
                   rest2 == SliceFrom(rest, d2.l)
               IN IF ContainsRune(opts.DoubleEscapeChars, c2)
                  THEN LET lit == Slice(input, 0, Len(input) - Len(rest2) - d.l - d2.l)
                       IN doubleScan(rest2, rest2,
                                     IF c2 = NL THEN buf \o lit
                                     ELSE buf \o lit \o EncodeRune(c2),
                                     opts)
                  ELSE CHOOSE f \in {doubleScan(input, r, buf, opts) : r \in {rest2}} : TRUE
          ELSE CHOOSE f \in {doubleScan(input, r, buf, opts) : r \in {rest}} : TRUE

\* mutant of double: every escape character of the span is dropped
doubleStripsEscapes(input, buf, opts) ==
  LET f == doubleScan(input, input, buf, opts)
      added == SubSeq(f.buf, Len(buf) + 1, Len(f.buf))
      notEscape(b) == b # opts.EscapeChar
  IN IF f.pc = "return" THEN f
     ELSE Goto("raw", f.input, buf \o SelectSeq(added, notEscape))

\* mutant of double: the end of the input closes the span
doubleLenient(input, buf, opts) ==
  LET f == doubleScan(input, input, buf, opts) IN
  IF f.pc = "return" THEN Goto("raw", <<>>, buf \o input) ELSE f

double(input, buf, opts) == doubleScan(input, input, buf, opts)

done(input, buf, opts) == Return(buf, buf, input, nil)

block(label, input, buf, opts) ==
  CASE label = "raw" -> raw(input, buf, opts)
    [] label = "escape" -> escape(input, buf, opts)
    [] label = "single" -> single(input, buf, opts)
    [] label = "double" -> double(input, buf, opts)
    [] label = "done" -> done(input, buf, opts)

RECURSIVE runWord(_, _)
runWord(f, opts) ==
  IF f.pc = "return" THEN f.ret ELSE runWord(block(f.pc, f.input, f.buf, opts), opts)

\* mutant of Reset: the buffer keeps what it holds
resetKeeps(buf) == buf

\* line 134: buf.Reset()
Reset(buf) == <<>>

\* splitWord: buf.Reset(), then the blocks from raw until one returns
splitWord(input, opts) == runWord(Goto("raw", input, <<>>), opts)

(***************************************************************************)
(* SplitWithOptions (src/unquote.go:60-121).                               *)
(***************************************************************************)
\* mutant of trimSplitChars: only the trailing split characters are removed
trimRightOnly(input, splitChars) == TrimRight(input, splitChars)

\* line 76
trimSplitChars(input, splitChars) ==
  \* by value: TrimRight's result is computed once and handed to TrimLeft
  CHOOSE t \in {TrimLeft(r, splitChars) : r \in {TrimRight(input, splitChars)}} : TRUE

\* mutant of enter: no case for Limit 1, which goes to the for loop
enterNoLimitOne(input, o) ==
  LET opts == IF o.isNil THEN DefaultSplitOptions ELSE o
      splitChars == IF Len(opts.SplitChars) = 0 THEN DefaultSplitChars ELSE opts.SplitChars
  IN [opts |-> opts, splitChars |-> splitChars, input |-> input, words |-> <<>>,
      err |-> nil, pc |-> IF opts.Limit = 0 THEN "returned" ELSE "loop"]

\* lines 61-84: nil options, the resolved splitChars, the Limit switch
enter(input, o) ==
  LET opts == IF o.isNil THEN DefaultSplitOptions ELSE o
      splitChars == IF Len(opts.SplitChars) = 0 THEN DefaultSplitChars ELSE opts.SplitChars
      base == [opts |-> opts, splitChars |-> splitChars, input |-> input,
               words |-> <<>>, err |-> nil, pc |-> "returned"]
  IN IF opts.Limit = 0 THEN base
     ELSE IF opts.Limit = 1
     THEN LET in1 == trimSplitChars(input, splitChars) IN
          [base EXCEPT !.input = in1,
                       !.words = IF Len(in1) > 0 THEN <<in1>> ELSE <<>>]
     ELSE [base EXCEPT !.pc = "loop"]

\* mutant of loopStep: leading split characters are not skipped
loopStepNoSkip(input, splitChars, opts) ==
  LET d == DecodeRuneInString(input) IN
  IF d.r = opts.EscapeChar /\ ~ContainsRune(splitChars, d.r)
  THEN LET next == SliceFrom(input, d.l) IN
       IF Len(next) = 0
       THEN [kind |-> "return", input |-> input, err |-> UnterminatedEscapeError]
       ELSE LET d2 == DecodeRuneInString(next) IN
            IF d2.r = NL
            THEN [kind |-> "continue", input |-> SliceFrom(next, d2.l), err |-> nil]
            ELSE [kind |-> "word", input |-> input, err |-> nil]
  ELSE [kind |-> "word", input |-> input, err |-> nil]

\* lines 88-104: the head of one iteration of the for loop, input non-empty
loopStep(input, splitChars, opts) ==
  LET d == DecodeRuneInString(input) IN
  IF ContainsRune(splitChars, d.r)
  THEN [kind |-> "continue", input |-> SliceFrom(input, d.l), err |-> nil]
  ELSE IF d.r = opts.EscapeChar
  THEN LET next == SliceFrom(input, d.l) IN
       IF Len(next) = 0
       THEN [kind |-> "return", input |-> input, err |-> UnterminatedEscapeError]
       ELSE LET d2 == DecodeRuneInString(next) IN
            IF d2.r = NL
            THEN [kind |-> "continue", input |-> SliceFrom(next, d2.l), err |-> nil]
            ELSE [kind |-> "word", input |-> input, err |-> nil]
  ELSE [kind |-> "word", input |-> input, err |-> nil]

\* mutant of atLimit: the limit is noticed one word late
atLimitLate(limit, words) == limit = Len(words)

\* line 112
atLimit(limit, words) == limit = Len(words) + 1

\* lines 107-118: r is what splitWord returned
afterWord(words, r, opts) ==
  IF r.err # nil
  THEN [pc |-> "returned", input |-> r.remainder, words |-> words, err |-> r.err]
  ELSE LET ws == Append(words, r.word) IN
       IF atLimit(opts.Limit, ws)
       THEN LET tail == TrimSpace(r.remainder) IN
            [pc |-> "returned", input |-> tail,
             words |-> IF Len(tail) > 0 THEN Append(ws, tail) ELSE ws, err |-> nil]
       ELSE [pc |-> "loop", input |-> r.remainder, words |-> ws, err |-> nil]

\* lines 86-120: the for loop
RECURSIVE loop(_, _, _, _)
loop(input, words, splitChars, opts) ==
  IF Len(input) = 0 THEN [words |-> words, err |-> nil]
  ELSE LET s == loopStep(input, splitChars, opts) IN
       IF s.kind = "continue" THEN loop(s.input, words, splitChars, opts)
       ELSE IF s.kind = "return" THEN [words |-> words, err |-> s.err]
       ELSE LET a == afterWord(words, splitWord(input, opts), opts) IN
            IF a.pc = "returned" THEN [words |-> a.words, err |-> a.err]
            ELSE loop(a.input, a.words, splitChars, opts)

SplitWithOptions(input, o) ==
  LET e == enter(input, o) IN
  IF e.pc = "returned" THEN [words |-> e.words, err |-> e.err]
  ELSE loop(e.input, e.words, e.splitChars, e.opts)

Split(input) == SplitWithOptions(input, DefaultSplitOptions)

SplitN(input, n) == SplitWithOptions(input, [DefaultSplitOptions EXCEPT !.Limit = n])

(***************************************************************************)
(* The calls explored: inputs are the UTF-8 encodings of the strings of    *)
(* at most MaxLen code points over CodePoints.                             *)
(***************************************************************************)
NBSP == 160

\* newline, space, double quote, single quote, backslash, 'a'
CodePoints == {10, 32, 34, 39, 92, 97}

\* NUL where the escape is disabled, U+00A0 where the tail of a limited split is
\* trimmed and where it is the single quote
ExtraCodePoints(o) ==
  IF o.EscapeChar = 0 /\ ~o.isNil THEN {0}
  ELSE IF o.Limit >= 2 \/ o.SingleChar = NBSP THEN {NBSP}
  ELSE {}

RECURSIVE Encode(_)
Encode(cps) == IF cps = <<>> THEN <<>> ELSE EncodeRune(Head(cps)) \o Encode(Tail(cps))

StringsOver(alphabet, n) == {Encode(cps) : cps \in UNION {[1..k -> alphabet] : k \in 0..n}}

\* under a word limit also the longer inputs of words and separators alone,
\* which hold more words than the limit allows
Inputs(o) ==
  StringsOver(CodePoints \cup ExtraCodePoints(o), MaxLen)
    \cup (IF o.Limit >= 0 THEN StringsOver({32, 97}, MaxWordsLen) ELSE {})

Configs ==
  {NilOptions, DefaultSplitOptions, NoEscapeSplitOptions,
   [DefaultSplitOptions EXCEPT !.SplitChars = <<>>],
   [DefaultSplitOptions EXCEPT !.SingleChar = NBSP],
   [DefaultSplitOptions EXCEPT !.SplitChars = <<32, 39>>],
   [DefaultSplitOptions EXCEPT !.DoubleEscapeChars = <<92>>],
   [DefaultSplitOptions EXCEPT !.SplitChars = <<32>>, !.Limit = 1],
   [DefaultSplitOptions EXCEPT !.SplitChars = <<32>>, !.Limit = 2]}
  \cup {[DefaultSplitOptions EXCEPT !.Limit = n] : n \in 0..3}

(***************************************************************************)
(* The step machine.  pc is the position of the call: "entry", "loop"      *)
(* (line 86), a label of splitWord, "ret" (splitWord has returned to line  *)
(* 107) or "returned".  input, splitChars, words, err are the variables of *)
(* SplitWithOptions; winput and buf those of splitWord; ret what it        *)
(* returned; orig the input argument.                                      *)
(***************************************************************************)
VARIABLES opts, orig, input, splitChars, words, err, winput, buf, ret, pc

vars == <<opts, orig, input, splitChars, words, err, winput, buf, ret, pc>>

Init ==
  /\ opts \in Configs
  /\ orig \in Inputs(opts)
  /\ input = orig
  /\ splitChars = <<>>
  /\ words = <<>>
  /\ err = nil
  /\ winput = <<>>
  /\ buf = <<>>
  /\ ret = NoRet
  /\ pc = "entry"

Enter ==
  /\ pc = "entry"
  /\ \E e \in {enter(input, opts)} :
       /\ opts' = e.opts
       /\ splitChars' = e.splitChars
       /\ input' = e.input
       /\ words' = e.words
       /\ err' = e.err
       /\ pc' = e.pc
  /\ UNCHANGED <<orig, winput, buf, ret>>

\* one pass through lines 86-105; on fall-through splitWord is entered (buf.Reset())
Loop ==
  /\ pc = "loop"
  /\ IF Len(input) = 0
     THEN pc' = "returned" /\ UNCHANGED <<input, err, winput, buf>>
     ELSE \E s \in {loopStep(input, splitChars, opts)} :
          IF s.kind = "continue"
          THEN pc' = "loop" /\ input' = s.input /\ UNCHANGED <<err, winput, buf>>
          ELSE IF s.kind = "return"
          THEN pc' = "returned" /\ err' = s.err /\ UNCHANGED <<input, winput, buf>>
          ELSE pc' = "raw" /\ winput' = input /\ buf' = Reset(buf) /\ UNCHANGED <<input, err>>
  /\ UNCHANGED <<opts, orig, splitChars, words, ret>>

\* a labelled block of splitWord has run, with outcome f
Goes(f) ==
  /\ IF f.pc = "return"
     THEN pc' = "ret" /\ ret' = f.ret /\ buf' = f.buf /\ UNCHANGED winput
     ELSE pc' = f.pc /\ winput' = f.input /\ buf' = f.buf /\ UNCHANGED ret
  /\ UNCHANGED <<opts, orig, input, splitChars, words, err>>

Raw ==
  /\ pc = "raw"
  /\ \E f \in {raw(winput, buf, opts)} : Goes(f)

Escape ==
  /\ pc = "escape"
  /\ \E f \in {escape(winput, buf, opts)} : Goes(f)

Single ==
  /\ pc = "single"
  /\ \E f \in {single(winput, buf, opts)} : Goes(f)

Double ==
  /\ pc = "double"
  /\ \E f \in {double(winput, buf, opts)} : Goes(f)

Done ==
  /\ pc = "done"
  /\ \E f \in {done(winput, buf, opts)} : Goes(f)

\* lines 107-118
Ret ==
  /\ pc = "ret"
  /\ \E a \in {afterWord(words, ret, opts)} :
       /\ pc' = a.pc
       /\ input' = a.input
       /\ words' = a.words
       /\ err' = a.err
  /\ UNCHANGED <<opts, orig, splitChars, winput, buf, ret>>

Next == Enter \/ Loop \/ Raw \/ Escape \/ Single \/ Double \/ Done \/ Ret

Spec == Init /\ [][Next]_vars

\* a call runs on until it returns: nothing suspends it
FairSpec == Spec /\ WF_vars(Next)

\* the step machine returns what the operator SplitWithOptions computes
StepsAgree ==
  pc = "returned" =>
    [words |-> words, err |-> err] = SplitWithOptions(orig, IF opts.isNil THEN NilOptions ELSE opts)

(***************************************************************************)
(* Vocabulary of the properties.                                           *)
(***************************************************************************)
Returned == pc = "returned"

Result == [words |-> words, err |-> err]

\* the runes of s, in order
RECURSIVE Runes(_)
Runes(s) ==
  IF Len(s) = 0 THEN <<>>
  ELSE LET d == DecodeRuneInString(s) IN <<d.r>> \o Runes(SliceFrom(s, d.l))

AllRunesIn(s, set) == \A k \in 1..Len(Runes(s)) : Runes(s)[k] \in set

\* t is s with the runes of set stripped from both ends and nothing else changed
IsStripped(s, t, set) ==
  \E i \in 0..Len(s) : \E j \in i..Len(s) :
    /\ t = Slice(s, i, j)
    /\ AllRunesIn(Slice(s, 0, i), set)
    /\ AllRunesIn(SliceFrom(s, j), set)
    /\ t # <<>> => /\ DecodeRuneInString(t).r \notin set
                   /\ DecodeLastRuneInString(t).r \notin set

RuneSet(s) == {Runes(s)[k] : k \in 1..Len(Runes(s))}

WordList(t) == IF t = <<>> THEN <<>> ELSE <<t>>

AllSlices(s) == {Slice(s, i, j) : i \in 0..Len(s), j \in 0..Len(s)}

\* the split characters a call uses
SplitRunes(o) == RuneSet(IF o.SplitChars = <<>> THEN DefaultSplitChars ELSE o.SplitChars)

\* the runs of default split characters of at most MaxRun code points
SepRuns == StringsOver({32, 10, 9}, MaxRun)

(***************************************************************************)
(* C1: whenever SplitWithOptions returns without error, every returned     *)
(* word is a non-empty string.                                             *)
(***************************************************************************)
C1_NoEmptyWords ==
  (Returned /\ err = nil) => \A k \in 1..Len(words) : words[k] # <<>>

\* C1 as amended: an empty word is returned only for a word that splitWord
\* started at a quote character (Split("''") = [""]); with no quote character
\* in the input every word is non-empty, and the verbatim last word of a
\* limited split is never empty.
C1_EmptyWordOnlyFromQuote ==
  /\ (pc = "ret" /\ ret.err = nil /\ ret.word = <<>>)
       => DecodeRuneInString(input).r \in {opts.SingleChar, opts.DoubleChar}
  /\ (Returned /\ err = nil /\ RuneSet(orig) \cap {opts.SingleChar, opts.DoubleChar} = {})
       => \A k \in 1..Len(words) : words[k] # <<>>
  /\ (Returned /\ opts.Limit >= 1 /\ Len(words) = opts.Limit)
       => words[Len(words)] # <<>>

C1_Witness ==
  Returned /\ err = nil /\ Len(words) = 2 /\ words[1] = <<>> /\ words[2] # <<>>

(***************************************************************************)
(* C2: whenever SplitWithOptions returns an error, the word list returned  *)
(* with it contains no words.                                              *)
(***************************************************************************)
C2_NoWordsOnError ==
  (Returned /\ err # nil) => words = <<>>

(***************************************************************************)
(* C3: a call with empty SplitChars returns the same words and error as    *)
(* the same call with SplitChars set to the default set.                   *)
(***************************************************************************)
C3_EmptySplitCharsIsDefault ==
  (Returned /\ opts.SplitChars = <<>>)
    => Result = SplitWithOptions(orig, [opts EXCEPT !.SplitChars = DefaultSplitChars])

(***************************************************************************)
(* C4: with Limit >= 0 the returned word list has at most Limit elements.  *)
(***************************************************************************)
C4_LengthBound ==
  (Returned /\ opts.Limit >= 0) => Len(words) <= opts.Limit

\* the limit is reached on an input that holds more words than the limit
C4_Witness ==
  /\ Returned /\ opts.Limit = 3 /\ Len(words) = 3
  /\ Len(SplitWithOptions(orig, [opts EXCEPT !.Limit = -1]).words) = 4

(***************************************************************************)
(* C5: with the default configuration, for every input s and every run r   *)
(* of split characters, Split(s) and Split(r + s + r) have the same words  *)
(* and the same error.                                                     *)
(***************************************************************************)
C5_SeparatorPadding ==
  (Returned /\ opts = DefaultSplitOptions)
    => \A r \in SepRuns : Split(r \o orig \o r) = Result

\* C5 as amended: the same, for every input s on which Split does not return
\* UnterminatedEscapeError (a trailing backslash escapes the first code point
\* of the run appended after it).
C5_SeparatorPaddingUnlessEscapeOpen ==
  (Returned /\ opts = DefaultSplitOptions /\ err # UnterminatedEscapeError)
    => \A r \in SepRuns : Split(r \o orig \o r) = Result

C5_Witness ==
  /\ Returned /\ opts = DefaultSplitOptions /\ err = nil /\ Len(words) = 2
  /\ Split(<<10, 32>> \o orig \o <<10, 32>>) = Result

(***************************************************************************)
(* C6: with the default configuration, for every b without a single quote, *)
(* Split("'" + b + "'") returns the one-element list [b] and no error.     *)
(***************************************************************************)
IsSingleQuoted(s) ==
  /\ Len(s) >= 2
  /\ s[1] = 39
  /\ s[Len(s)] = 39
  /\ \A k \in 2..(Len(s) - 1) : s[k] # 39

C6_QuoteTransparency ==
  (Returned /\ opts = DefaultSplitOptions /\ IsSingleQuoted(orig))
    => (err = nil /\ words = <<SubSeq(orig, 2, Len(orig) - 1)>>)

C6_Witness ==
  /\ Returned /\ opts = DefaultSplitOptions /\ IsSingleQuoted(orig)
  /\ words = <<<<92, 34>>>>

(***************************************************************************)
(* C7: with the default configuration the error is decided by what is open *)
(* when the input ends: a single-quoted span, a double-quoted span (also   *)
(* right after a backslash in it), an unconsumed backslash at the RAW      *)
(* level, or nothing.                                                      *)
(***************************************************************************)
\* the construct open after reading the code points s, starting in state st
RECURSIVE OpenAtEnd(_, _)
OpenAtEnd(s, st) ==
  IF Len(s) = 0 THEN st
  ELSE LET c == Head(s) IN
       OpenAtEnd(Tail(s),
         CASE st = "RAW" -> (IF c = 39 THEN "SINGLE" ELSE IF c = 34 THEN "DOUBLE"
                             ELSE IF c = 92 THEN "ESCAPE" ELSE "RAW")
           [] st = "ESCAPE" -> "RAW"
           [] st = "SINGLE" -> (IF c = 39 THEN "RAW" ELSE "SINGLE")
           [] st = "DOUBLE" -> (IF c = 34 THEN "RAW" ELSE IF c = 92 THEN "DOUBLE_BACKSLASH"
                                ELSE "DOUBLE")
           [] st = "DOUBLE_BACKSLASH" -> "DOUBLE")

ErrorOfOpen(st) ==
  CASE st = "RAW" -> nil
    [] st = "ESCAPE" -> UnterminatedEscapeError
    [] st = "SINGLE" -> UnterminatedSingleQuoteError
    [] st \in {"DOUBLE", "DOUBLE_BACKSLASH"} -> UnterminatedDoubleQuoteError

C7_ErrorByOpenConstruct ==
  (Returned /\ opts = DefaultSplitOptions)
    => err = ErrorOfOpen(OpenAtEnd(Runes(orig), "RAW"))

C7_Witness ==
  /\ Returned /\ opts = DefaultSplitOptions /\ Len(words) = 1
  /\ err = UnterminatedDoubleQuoteError
  /\ orig[Len(orig)] = 92

(***************************************************************************)
(* C8: with Limit = 1 no error is returned and no quote or backslash is    *)
(* interpreted: the result is the input with leading and trailing split    *)
(* characters stripped, as the single word, or no word when nothing is     *)
(* left.                                                                   *)
(***************************************************************************)
C8_LimitOneVerbatim ==
  (Returned /\ opts.Limit = 1)
    => /\ err = nil
       /\ \E t \in AllSlices(orig) :
            /\ IsStripped(orig, t, SplitRunes(opts))
            /\ words = WordList(t)

C8_Witness ==
  /\ Returned /\ opts.Limit = 1 /\ Len(words) = 1
  /\ Len(words[1]) < Len(orig)
  /\ SplitWithOptions(orig, [opts EXCEPT !.Limit = -1]).err = UnterminatedSingleQuoteError

(***************************************************************************)
(* C9: with Limit = N >= 2, once N-1 words are parsed the rest of the      *)
(* input after the separator that ended word N-1 has exactly the ASCII     *)
(* whitespace code points stripped from both ends and, if non-empty, is    *)
(* the last word, verbatim and without error; the first N-1 words are the  *)
(* ones an unlimited split produces for the same prefix.                   *)
(***************************************************************************)
AsciiWhiteSpace == {9, 10, 11, 12, 13, 32}

UnicodeWhiteSpace ==
  AsciiWhiteSpace \cup {133, 160, 5760, 8232, 8233, 8239, 8287, 12288} \cup (8192..8202)

\* the tail path of a limited split strips the code points of ws
LimitTail(ws) ==
  (Returned /\ opts.Limit >= 2 /\ Len(words) >= opts.Limit - 1)
    => LET rem == ret.remainder
           prefix == Slice(orig, 0, Len(orig) - Len(rem))
           un == SplitWithOptions(prefix, [opts EXCEPT !.Limit = -1])
       IN /\ err = nil
          /\ SliceFrom(orig, Len(orig) - Len(rem)) = rem
          /\ un.err = nil
          /\ Len(un.words) = opts.Limit - 1
          /\ \E t \in AllSlices(rem) :
               /\ IsStripped(rem, t, ws)
               /\ words = un.words \o WordList(t)

C9_TailAsciiTrimmed == LimitTail(AsciiWhiteSpace)

\* C9 as amended: the same, with the Unicode White_Space code points (the
\* ASCII ones and U+0085, U+00A0, U+1680, U+2000-U+200A, U+2028, U+2029,
\* U+202F, U+205F, U+3000) stripped from both ends.
C9_TailUnicodeTrimmed == LimitTail(UnicodeWhiteSpace)

C9_Witness ==
  /\ Returned /\ opts.Limit = 2 /\ Len(words) = 2
  /\ Len(words[2]) < Len(ret.remainder)
  /\ 39 \in RuneSet(words[2])
  /\ SplitWithOptions(orig, [opts EXCEPT !.Limit = -1]).err # nil

(***************************************************************************)
(* C10: with EscapeChar = 0 the ESCAPE state is never entered and          *)
(* UnterminatedEscapeError is never returned, whatever code points the     *)
(* input holds.                                                            *)
(***************************************************************************)
C10_NoEscapeWhenDisabled ==
  (~opts.isNil /\ opts.EscapeChar = 0)
    => (pc # "escape" /\ err # UnterminatedEscapeError)

(***************************************************************************)
(* C11: for every configuration and every limit, an input that is empty or *)
(* holds only split characters yields the empty word list and no error.    *)
(***************************************************************************)
C11_OnlySeparators ==
  (Returned /\ AllRunesIn(orig, SplitRunes(opts))) => (words = <<>> /\ err = nil)

C11_Witness ==
  /\ Returned /\ opts.Limit = 2 /\ words = <<>> /\ err = nil
  /\ RuneSet(orig) = {10, 32}

(***************************************************************************)
(* C12: every call terminates: each pass of the Driver's loop shortens the *)
(* remaining input, splitWord is called on a non-empty input and leaves a  *)
(* shorter remainder, and every transition between RAW and SINGLE, DOUBLE  *)
(* or ESCAPE consumes input.                                               *)
(***************************************************************************)
Progress ==
  /\ (pc = "loop" /\ pc' = "loop") => Len(input') < Len(input)
  /\ (pc = "loop" /\ pc' = "raw") => Len(winput') > 0
  /\ (pc = "ret" /\ pc' = "loop") => Len(input') < Len(input)
  /\ (pc = "raw" /\ pc' \in {"single", "double", "escape"}) => Len(winput') < Len(winput)
  /\ (pc \in {"single", "double", "escape"} /\ pc' = "raw") => Len(winput') < Len(winput)

C12_Terminates == [][Progress]_vars /\ <>Returned

C12_Witness ==
  /\ Returned /\ err = nil /\ Len(words) = 2
  /\ RuneSet(orig) \cap {opts.SingleChar, opts.DoubleChar, opts.EscapeChar} # {}

(***************************************************************************)
(* C13: in splitWord the only transitions are RAW to SINGLE, DOUBLE or     *)
(* ESCAPE and each of these back to RAW; parsing starts in RAW, a word is  *)
(* returned without error only from RAW (at a separator, or at the end of  *)
(* the input through the label done), and each error is raised only in its *)
(* own state.                                                              *)
(***************************************************************************)
ErrorOfState(st) ==
  CASE st = "single" -> UnterminatedSingleQuoteError
    [] st = "double" -> UnterminatedDoubleQuoteError
    [] st = "escape" -> UnterminatedEscapeError

Transitions ==
  /\ (pc = "loop" /\ pc' \notin {"loop", "returned"}) => pc' = "raw"
  /\ pc = "raw" => /\ pc' \in {"single", "double", "escape", "done", "ret"}
                   /\ pc' = "ret" => ret'.err = nil
  /\ pc \in {"single", "double", "escape"}
       => /\ pc' \in {"raw", "ret"}
          /\ pc' = "ret" => ret'.err = ErrorOfState(pc)
  /\ pc = "done" => (pc' = "ret" /\ ret'.err = nil)
  /\ pc' = "done" => pc = "raw"
  /\ pc' = "ret" => pc \in {"raw", "done", "single", "double", "escape"}

C13_StateTransitions == [][Transitions]_vars

C13_Witness ==
  pc = "ret" /\ ret.err = UnterminatedEscapeError /\ Len(words) = 1

(***************************************************************************)
(* C14: a double-quoted span contributes its body up to the closing        *)
(* double_char with, from left to right, each pair (escape_char, c) with c *)
(* in double_escape_chars replaced by c, or by nothing when c is a         *)
(* newline, and everything else kept byte for byte; an escape_char before  *)
(* a code point outside double_escape_chars stays with that code point,    *)
(* and an escaped double_char does not close the span.  escape_char is the *)
(* configured code point, in every configuration.                          *)
(***************************************************************************)
\* the span that starts at cur, read as the claim describes it
RECURSIVE SpanContent(_, _, _)
SpanContent(cur, out, o) ==
  IF Len(cur) = 0 THEN [closed |-> FALSE, content |-> out, rest |-> <<>>]
  ELSE LET d == DecodeRuneInString(cur)
           after == SliceFrom(cur, d.l)
       IN IF d.r = o.DoubleChar
          THEN [closed |-> TRUE, content |-> out, rest |-> after]
          ELSE IF d.r = o.EscapeChar /\ Len(after) > 0
          THEN LET d2 == DecodeRuneInString(after)
                   pair == Slice(cur, 0, d.l + d2.l)
                   c == Slice(after, 0, d2.l)
               IN SpanContent(SliceFrom(after, d2.l),
                              IF d2.r \in RuneSet(o.DoubleEscapeChars)
                              THEN (IF d2.r = NL THEN out ELSE out \o c)
                              ELSE out \o pair,
                              o)
          ELSE SpanContent(after, out \o Slice(cur, 0, d.l), o)

DoubleStep ==
  pc = "double" =>
    LET span == SpanContent(winput, <<>>, opts) IN
    IF span.closed
    THEN pc' = "raw" /\ buf' = buf \o span.content /\ winput' = span.rest
    ELSE pc' = "ret" /\ ret'.err = UnterminatedDoubleQuoteError

C14_DoubleContent == [][DoubleStep]_vars

C14_Witness ==
  pc = "raw" /\ orig = <<34, 92, 97, 34>> /\ buf = <<92, 97>> /\ winput = <<>>

(***************************************************************************)
(* C15: for every configuration, also with a single_char of several bytes, *)
(* SINGLE appends exactly the bytes up to the closing quote and goes back  *)
(* to RAW with the input starting right after the whole closing quote.     *)
(***************************************************************************)
SingleStep ==
  pc = "single" =>
    LET quote == EncodeRune(opts.SingleChar)
        i == Index(winput, quote)
    IN IF i = -1
       THEN pc' = "ret" /\ ret'.err = UnterminatedSingleQuoteError
       ELSE /\ pc' = "raw"
            /\ buf' = buf \o Slice(winput, 0, i)
            /\ winput' = SliceFrom(winput, i + Len(quote))

C15_SingleResumesPastQuote == [][SingleStep]_vars

\* the same statement for the quote characters of one byte
C15_OneByteQuote == [][opts.SingleChar < RuneSelf => SingleStep]_vars

(***************************************************************************)
(* C16: in RAW an escape_char followed by a code point c other than a      *)
(* newline contributes exactly c to the word and c is not interpreted: an  *)
(* input of ordinary characters around one such pair is one word, the      *)
(* input without the escape_char, whether c is a separator, a quote        *)
(* character or the escape_char, and also when the pair starts the word.   *)
(***************************************************************************)
Plain == StringsOver({97}, MaxRun)

C16_EscapedLiteral ==
  (Returned /\ opts.Limit \notin {0, 1}) =>
    \A pre \in Plain, post \in Plain, c \in RuneSet(orig) \ {NL} :
      orig = pre \o EncodeRune(opts.EscapeChar) \o EncodeRune(c) \o post
        => (err = nil /\ words = <<pre \o EncodeRune(c) \o post>>)

C16_Witness ==
  /\ Returned /\ opts = DefaultSplitOptions
  /\ orig = <<92, 39, 97>> /\ words = <<<<39, 97>>>> /\ err = nil

(***************************************************************************)
(* C17: with unlimited words, an escape_char immediately followed by a     *)
(* newline that the parser reads in RAW or in DOUBLE is consumed with the  *)
(* newline and neither reaches the output, and a word goes on across the   *)
(* pair: the result is the result for the input without the pair.          *)
(***************************************************************************)
\* the state of the parser after the code points rs, starting in state st
RECURSIVE StateAfter(_, _, _)
StateAfter(rs, st, o) ==
  IF Len(rs) = 0 THEN st
  ELSE LET c == Head(rs) IN
       StateAfter(Tail(rs),
         CASE st = "RAW" -> (IF c = o.SingleChar THEN "SINGLE"
                             ELSE IF c = o.DoubleChar THEN "DOUBLE"
                             ELSE IF c = o.EscapeChar THEN "ESCAPE" ELSE "RAW")
           [] st = "ESCAPE" -> "RAW"
           [] st = "SINGLE" -> (IF c = o.SingleChar THEN "RAW" ELSE "SINGLE")
           [] st = "DOUBLE" -> (IF c = o.DoubleChar THEN "RAW"
                                ELSE IF c = o.EscapeChar THEN "DOUBLE_BACKSLASH"
                                ELSE "DOUBLE")
           [] st = "DOUBLE_BACKSLASH" -> "DOUBLE",
         o)

\* code points k and k+1 of rs are escape_char and newline, read in state st
ContinuationAt(rs, k, st, o) ==
  /\ k < Len(rs) /\ rs[k] = o.EscapeChar /\ rs[k + 1] = NL
  /\ StateAfter(SubSeq(rs, 1, k - 1), "RAW", o) = st

WithoutPair(rs, k) == SubSeq(rs, 1, k - 1) \o SubSeq(rs, k + 2, Len(rs))

\* the pairs read in one of the states sts leave no trace in the result
ContinuationsVanish(sts) ==
  LET rs == Runes(orig) IN
  \A k \in 1..Len(rs) : \A st \in sts :
    ContinuationAt(rs, k, st, opts)
      => Result = SplitWithOptions(Encode(WithoutPair(rs, k)), opts)

C17_ContinuationRemoved ==
  (Returned /\ opts.Limit < 0) => ContinuationsVanish({"RAW", "DOUBLE"})

\* in DOUBLE only when the newline is one of double_escape_chars
C17_ContinuationRemovedIfEscapable ==
  (Returned /\ opts.Limit < 0) =>
    ContinuationsVanish({"RAW"} \cup IF NL \in RuneSet(opts.DoubleEscapeChars)
                                     THEN {"DOUBLE"} ELSE {})

C17_Witness ==
  /\ Returned /\ opts = DefaultSplitOptions
  /\ orig = <<97, 92, 10, 97>> /\ words = <<<<97, 97>>>> /\ err = nil

(***************************************************************************)
(* C18: for every successful unlimited split, the concatenation of the     *)
(* words is the input without the separators read in RAW, the quote        *)
(* delimiters, the consumed escape characters and the escaped newlines;    *)
(* every other code point is kept once, in order, with its bytes.          *)
(***************************************************************************)
RECURSIVE Concat(_)
Concat(ws) == IF ws = <<>> THEN <<>> ELSE Head(ws) \o Concat(Tail(ws))

\* the code points of rs that are kept, reading rs from state st
RECURSIVE Kept(_, _, _)
Kept(rs, st, o) ==
  IF Len(rs) = 0 THEN <<>>
  ELSE LET c == Head(rs)
           rest == Tail(rs)
       IN CASE st = "RAW" ->
                 (IF c = o.SingleChar THEN Kept(rest, "SINGLE", o)
                  ELSE IF c = o.DoubleChar THEN Kept(rest, "DOUBLE", o)
                  ELSE IF c = o.EscapeChar THEN Kept(rest, "ESCAPE", o)
                  ELSE IF c \in SplitRunes(o) THEN Kept(rest, "RAW", o)
                  ELSE <<c>> \o Kept(rest, "RAW", o))
            [] st = "ESCAPE" ->
                 (IF c = NL THEN <<>> ELSE <<c>>) \o Kept(rest, "RAW", o)
            [] st = "SINGLE" ->
                 (IF c = o.SingleChar THEN Kept(rest, "RAW", o)
                  ELSE <<c>> \o Kept(rest, "SINGLE", o))
            [] st = "DOUBLE" ->
                 (IF c = o.DoubleChar THEN Kept(rest, "RAW", o)
                  ELSE IF c = o.EscapeChar /\ Len(rest) > 0
                  THEN (IF Head(rest) \in RuneSet(o.DoubleEscapeChars)
                        THEN (IF Head(rest) = NL THEN <<>> ELSE <<Head(rest)>>)
                        ELSE <<c, Head(rest)>>) \o Kept(Tail(rest), "DOUBLE", o)
                  ELSE <<c>> \o Kept(rest, "DOUBLE", o))

WordsAreKeptInput == Concat(words) = Encode(Kept(Runes(orig), "RAW", opts))

C18_OnlyDelimitersRemoved ==
  (Returned /\ err = nil /\ opts.Limit < 0) => WordsAreKeptInput

\* the same statement where SplitChars is set, no quote character is a split
\* character and the quote characters are one byte long
C18_PlainConfigurations ==
  (/\ Returned /\ err = nil /\ opts.Limit < 0
   /\ opts.SplitChars # <<>>
   /\ SplitRunes(opts) \cap {opts.SingleChar, opts.DoubleChar, opts.EscapeChar} = {}
   /\ opts.SingleChar < RuneSelf)
    => WordsAreKeptInput

(***************************************************************************)
(* C19: when single_char, double_char or escape_char is also a split       *)
(* character, it is read at the unquoted level as the quote or escape and  *)
(* never as a separator, also as the first code point of a word: the       *)
(* result is the one obtained with that code point taken out of            *)
(* split_chars.                                                            *)
(***************************************************************************)
Specials(o) == {o.SingleChar, o.DoubleChar, o.EscapeChar}

SplitCharsWithoutSpecials(o) ==
  LET notSpecial(c) == c \notin Specials(o)
  IN Encode(SelectSeq(Runes(o.SplitChars), notSpecial))

C19_QuoteBeforeSeparator ==
  (/\ Returned
   /\ RuneSet(opts.SplitChars) \cap Specials(opts) # {}
   /\ SplitCharsWithoutSpecials(opts) # <<>>)
    => Result = SplitWithOptions(orig, [opts EXCEPT !.SplitChars = SplitCharsWithoutSpecials(opts)])

\* the same statement for the inputs in which no word starts with that code point
C19_InsideWords ==
  (/\ Returned
   /\ RuneSet(opts.SplitChars) \cap Specials(opts) # {}
   /\ SplitCharsWithoutSpecials(opts) # <<>>
   /\ LET rs == Runes(orig) IN
      \A k \in 1..Len(rs) :
        rs[k] \in Specials(opts) => (k > 1 /\ rs[k - 1] \notin RuneSet(opts.SplitChars)))
    => Result = SplitWithOptions(orig, [opts EXCEPT !.SplitChars = SplitCharsWithoutSpecials(opts)])

(***************************************************************************)
(* C20: the accumulator shared by the splitWord calls of one               *)
(* SplitWithOptions call carries nothing from one word into a later one:   *)
(* what each call returns is what splitWord returns for the same input     *)
(* with a fresh, empty accumulator.                                        *)
(***************************************************************************)
C20_FreshAccumulator == pc = "ret" => ret = splitWord(input, opts)

C20_Witness ==
  /\ pc = "ret" /\ ret.err = nil
  /\ Len(words) = 1 /\ words[1] # <<>>
  /\ ret.word # <<>> /\ ret.word # words[1]

=============================================================================
